---- MODULE Spec2Model ----
\* AVL tree of zahlen (ds/tree/avl.py): per-node height/weight bookkeeping,
\* the imbalance predicates, the two rotations and the upward rebalance walk
\* _update/_balance, driven by the insert and delete of the plain binary
\* search tree the AVL tree extends (module bst).
EXTENDS Integers, Sequences, FiniteSets, TLC

\* ---------------------------------------------------------------- bounds
\* Keys the free-running specification inserts and deletes: 1..MaxKey.
MaxKey == 9

\* Keys of the specification that states the fairness of the walk:
\* 1..FairKey.
FairKey == 7
\* Length of the longest increasing-insert script (insert 1, 2, ..., MaxInc).
MaxInc == 1000

\* ----------------------------------------------------------------- state
\* A node is identified by its key (keys are unique and never change).
VARIABLES
    root,     \* AVLTree.root: a key, or Nil
    left,     \* Node.left   : key -> key or Nil
    right,    \* Node.right  : key -> key or Nil
    parent,   \* Node.parent : key -> key or Nil
    height,   \* Node._height: key -> Int
    weight,   \* Node.weight : key -> Int
    count,    \* Node.count  : key -> Int
    pc,       \* position of the running operation
    unode,    \* the loop variable `node` of _update
    bnode,    \* the argument `node` of the running _balance call
    bparent,  \* the local `parent` captured by the running _balance call
    plan,     \* rotations the running _balance call has still to make
    depth,    \* "direct" for the _balance call made by _update, else "recursive"
    rotlog,   \* rotations made since the running operation started
    ballog,   \* _balance calls made since the running operation started
    op,       \* the operation running or last run: <<"insert" or "delete", key>>
    sid,      \* the script being replayed (0: none, operations are free)
    pos       \* number of operations of the script already started

vars == <<root, left, right, parent, height, weight, count, pc, unode, bnode,
          bparent, plan, depth, rotlog, ballog, op, sid, pos>>

treeVars == <<root, left, right, parent, height, weight, count>>

\* None.
Nil == 0

\* Height an absent child contributes.
AbsentHeight == -1

Max(a, b) == IF a >= b THEN a ELSE b

Abs(a) == IF a >= 0 THEN a ELSE -a

\* The tree as one value, so that the code's assignment sequences compose.
Tree == [root |-> root, left |-> left, right |-> right, parent |-> parent,
         height |-> height, weight |-> weight, count |-> count]

Nodes(t) == DOMAIN t.left

\* ------------------------------------------------------------- avl.Node
LeftHeight(t, n) == IF t.left[n] # Nil THEN t.height[t.left[n]] ELSE AbsentHeight

RightHeight(t, n) == IF t.right[n] # Nil THEN t.height[t.right[n]] ELSE AbsentHeight

IsHeavy(t, n) == Abs(LeftHeight(t, n) - RightHeight(t, n)) > 1

IsLeftHeavy(t, n, diff) == LeftHeight(t, n) - RightHeight(t, n) > diff

\* Mutant: the heavy test taken with >= instead of >.
IsRightHeavy_Ge(t, n, diff) == RightHeight(t, n) - LeftHeight(t, n) >= diff

\* Mutant: the test copied from is_left_heavy with the operands not swapped.
IsRightHeavy_Copy(t, n, diff) == LeftHeight(t, n) - RightHeight(t, n) > diff

IsRightHeavy(t, n, diff) == RightHeight(t, n) - LeftHeight(t, n) > diff

\* bst.Node.left_weight / right_weight: weight of the child, 0 when absent.
LeftWeight(t, n) == IF t.left[n] # Nil THEN t.weight[t.left[n]] ELSE 0

RightWeight(t, n) == IF t.right[n] # Nil THEN t.weight[t.right[n]] ELSE 0

\* Mutant: the right child's weight is left out of the sum.
UpdateWeight_NoRight(t, n) == t.count[n] + LeftWeight(t, n)

UpdateWeight(t, n) == t.count[n] + LeftWeight(t, n) + RightWeight(t, n)

UpdateHeight(t, n) == 1 + Max(LeftHeight(t, n), RightHeight(t, n))

\* Mutant: update() recomputes the weight and leaves the height as it was.
Update_NoHeight(t, n) == [t EXCEPT !.weight[n] = UpdateWeight(t, n)]

\* Node.update()
Update(t, n) ==
    [t EXCEPT !.weight[n] = UpdateWeight(t, n),
              !.height[n] = UpdateHeight(t, n)]

\* ------------------------------------------------------------- bst.Node
\* node.left = c: stores the child and sets the child's parent back-link.
SetLeft(t, n, c) ==
    IF c # Nil
    THEN [t EXCEPT !.left[n] = c, !.parent[c] = n]
    ELSE [t EXCEPT !.left[n] = c]

SetRight(t, n, c) ==
    IF c # Nil
    THEN [t EXCEPT !.right[n] = c, !.parent[c] = n]
    ELSE [t EXCEPT !.right[n] = c]

\* p.add_child(c): left or right slot of p by key comparison.
AddChild(t, p, c) == IF c < p THEN SetLeft(t, p, c) ELSE SetRight(t, p, c)

\* ---------------------------------------------------- AVLTree rotations
\* Mutant: node is hung on the wrong side of heavy_child.
RotateLeft_Mirror(t, node, heavy_child) ==
    LET p  == t.parent[node]
        t1 == SetRight(t, node, t.left[heavy_child])
        t2 == Update(t1, node)
        t3 == [t2 EXCEPT !.parent[heavy_child] = p]
        t4 == SetRight(t3, heavy_child, node)
        t5 == Update(t4, heavy_child)
    IN  IF p # Nil THEN AddChild(t5, p, heavy_child)
                   ELSE [t5 EXCEPT !.root = heavy_child]

\* Mutant: heavy_child.update() runs before node.update().
RotateLeft_UpdateOrder(t, node, heavy_child) ==
    LET p  == t.parent[node]
        t1 == SetRight(t, node, t.left[heavy_child])
        t2 == [t1 EXCEPT !.parent[heavy_child] = p]
        t3 == SetLeft(t2, heavy_child, node)
        t4 == Update(t3, heavy_child)
        t5 == Update(t4, node)
    IN  IF p # Nil THEN AddChild(t5, p, heavy_child)
                   ELSE [t5 EXCEPT !.root = heavy_child]

\* Mutant: node takes over heavy_child's right subtree instead of its left.
RotateLeft_WrongGrandchild(t, node, heavy_child) ==
    LET p  == t.parent[node]
        t1 == SetRight(t, node, t.right[heavy_child])
        t2 == Update(t1, node)
        t3 == [t2 EXCEPT !.parent[heavy_child] = p]
        t4 == SetLeft(t3, heavy_child, node)
        t5 == Update(t4, heavy_child)
    IN  IF p # Nil THEN AddChild(t5, p, heavy_child)
                   ELSE [t5 EXCEPT !.root = heavy_child]

RotateLeft(t, node, heavy_child) ==
    LET p  == t.parent[node]
        t1 == SetRight(t, node, t.left[heavy_child])
        t2 == Update(t1, node)
        t3 == [t2 EXCEPT !.parent[heavy_child] = p]
        t4 == SetLeft(t3, heavy_child, node)
        t5 == Update(t4, heavy_child)
    IN  IF p # Nil THEN AddChild(t5, p, heavy_child)
                   ELSE [t5 EXCEPT !.root = heavy_child]

\* Mutant: self.root = heavy_child is left out when node was the root.
RotateRight_NoRoot(t, node, heavy_child) ==
    LET p  == t.parent[node]
        t1 == SetLeft(t, node, t.right[heavy_child])
        t2 == Update(t1, node)
        t3 == [t2 EXCEPT !.parent[heavy_child] = p]
        t4 == SetRight(t3, heavy_child, node)
        t5 == Update(t4, heavy_child)
    IN  IF p # Nil THEN AddChild(t5, p, heavy_child) ELSE t5

\* Mutant: heavy_child.update() is left out.
RotateRight_NoChildUpdate(t, node, heavy_child) ==
    LET p  == t.parent[node]
        t1 == SetLeft(t, node, t.right[heavy_child])
        t2 == Update(t1, node)
        t3 == [t2 EXCEPT !.parent[heavy_child] = p]
        t4 == SetRight(t3, heavy_child, node)
    IN  IF p # Nil THEN AddChild(t4, p, heavy_child)
                   ELSE [t4 EXCEPT !.root = heavy_child]

RotateRight(t, node, heavy_child) ==
    LET p  == t.parent[node]
        t1 == SetLeft(t, node, t.right[heavy_child])
        t2 == Update(t1, node)
        t3 == [t2 EXCEPT !.parent[heavy_child] = p]
        t4 == SetRight(t3, heavy_child, node)
        t5 == Update(t4, heavy_child)
    IN  IF p # Nil THEN AddChild(t5, p, heavy_child)
                   ELSE [t5 EXCEPT !.root = heavy_child]

\* Mutant: the heavy child's lean is never tested, every fix is a single
\* rotation.
BalancePlan_NoDouble(t, node) ==
    IF IsLeftHeavy(t, node, 1) THEN <<<<"R", "self">>>>
    ELSE IF IsRightHeavy(t, node, 1) THEN <<<<"L", "self">>>>
    ELSE <<>>

\* Mutant: the heavy child's lean is tested with diff = -1, so a balanced
\* heavy child is rotated first as well.
BalancePlan_EagerDouble(t, node) ==
    IF IsLeftHeavy(t, node, 1)
    THEN (IF IsRightHeavy(t, t.left[node], -1) THEN <<<<"L", "child">>>> ELSE <<>>)
         \o <<<<"R", "self">>>>
    ELSE IF IsRightHeavy(t, node, 1)
    THEN (IF IsLeftHeavy(t, t.right[node], -1) THEN <<<<"R", "child">>>> ELSE <<>>)
         \o <<<<"L", "self">>>>
    ELSE <<>>

\* The rotations one _balance call makes at node, in order, decided by the
\* two heavy tests: each is <<direction, at>> with at = "child" for the
\* rotation at the heavy child and "self" for the rotation at node.
BalancePlan(t, node) ==
    IF IsLeftHeavy(t, node, 1)
    THEN (IF IsRightHeavy(t, t.left[node], 0) THEN <<<<"L", "child">>>> ELSE <<>>)
         \o <<<<"R", "self">>>>
    ELSE IF IsRightHeavy(t, node, 1)
    THEN (IF IsLeftHeavy(t, t.right[node], 0) THEN <<<<"R", "child">>>> ELSE <<>>)
         \o <<<<"L", "self">>>>
    ELSE <<>>

\* The node a planned rotation is made at, read when the rotation starts.
RotNode(t, node, r) ==
    IF r[2] = "self" THEN node
    ELSE IF r[1] = "L" THEN t.left[node] ELSE t.right[node]

\* One planned rotation r of the _balance call at node.
Rotation(t, node, r) ==
    LET n == RotNode(t, node, r)
    IN  IF r[1] = "L" THEN RotateLeft(t, n, t.right[n])
                      ELSE RotateRight(t, n, t.left[n])

\* The body of one _balance call at node up to `if parent:`: the rotations
\* the heavy tests select, made in order.
ApplyPlan(t, node) ==
    LET pl == BalancePlan(t, node)
    IN  IF pl = <<>> THEN t
        ELSE IF Len(pl) = 1 THEN Rotation(t, node, pl[1])
        ELSE Rotation(Rotation(t, node, pl[1]), node, pl[2])

RECURSIVE BalanceCall(_, _)
\* _balance(node) as a whole: its rotations, then the recursive call on the
\* parent captured before them.
BalanceCall(t, node) ==
    LET p  == t.parent[node]
        t1 == ApplyPlan(t, node)
    IN  IF p # Nil THEN BalanceCall(t1, p) ELSE t1

\* ----------------------------------------------- bst.BinarySearchTree
RECURSIVE Descend(_, _, _)
\* The node under which key k is attached, searching down from n.
Descend(t, n, k) ==
    IF k < n
    THEN IF t.left[n] = Nil THEN n ELSE Descend(t, t.left[n], k)
    ELSE IF t.right[n] = Nil THEN n ELSE Descend(t, t.right[n], k)

\* create_node(key): a leaf with height 0, count 1, weight 1.
CreateNode(t, k) ==
    [t EXCEPT !.left   = @ @@ (k :> Nil),
              !.right  = @ @@ (k :> Nil),
              !.parent = @ @@ (k :> Nil),
              !.height = @ @@ (k :> 0),
              !.weight = @ @@ (k :> 1),
              !.count  = @ @@ (k :> 1)]

\* insert(key), up to the call of _update on the new leaf.
InsertNode(t, k) ==
    LET t1 == CreateNode(t, k)
    IN  IF t.root = Nil THEN [t1 EXCEPT !.root = k]
        ELSE AddChild(t1, Descend(t, t.root, k), k)

RECURSIVE Leftmost(_, _)
Leftmost(t, n) == IF t.left[n] = Nil THEN n ELSE Leftmost(t, t.left[n])

RECURSIVE Rightmost(_, _)
Rightmost(t, n) == IF t.right[n] = Nil THEN n ELSE Rightmost(t, t.right[n])

Without(f, k) == [x \in (DOMAIN f) \ {k} |-> f[x]]

\* The node k leaves the tree's node set.
DropNode(t, k) ==
    [t EXCEPT !.left = Without(@, k), !.right = Without(@, k),
              !.parent = Without(@, k), !.height = Without(@, k),
              !.weight = Without(@, k), !.count = Without(@, k)]

\* The subtree rooted at c (or nothing) takes the slot node n has under its
\* parent, or becomes the root.
Transplant(t, n, c) ==
    LET p  == t.parent[n]
        t1 == IF c # Nil THEN [t EXCEPT !.parent[c] = p] ELSE t
    IN  IF p = Nil THEN [t1 EXCEPT !.root = c]
        ELSE IF t.left[p] = n THEN [t1 EXCEPT !.left[p] = c]
        ELSE [t1 EXCEPT !.right[p] = c]

\* The ways the plain tree may splice a node with two children: by its
\* in-order successor or predecessor, and either moving that node into the
\* deleted node's place (its stored height and weight come along) or
\* keeping the deleted node's place and fields under the spliced key.
SpliceWays == {"successor", "predecessor"} \X {"move", "keep"}

\* Node s, spliced out of its own place, takes the place of k.
SpliceIn(t, k, s, way) ==
    LET sp == t.parent[s]
        t1 == IF sp = k THEN t
              ELSE IF way[1] = "successor"
              THEN SetRight(SetLeft(t, sp, t.right[s]), s, t.right[k])
              ELSE SetLeft(SetRight(t, sp, t.left[s]), s, t.left[k])
        t2 == IF way[1] = "successor" THEN SetLeft(t1, s, t.left[k])
                                      ELSE SetRight(t1, s, t.right[k])
        t3 == Transplant(t2, k, s)
    IN  IF way[2] = "move" THEN t3
        ELSE [t3 EXCEPT !.height[s] = t.height[k], !.weight[s] = t.weight[k]]

\* delete(key), up to the call of _update: the tree after the splice and the
\* node the rebalance walk starts at (the parent of the spliced node).
DeleteNode(t, k, way) ==
    IF t.left[k] # Nil /\ t.right[k] # Nil
    THEN LET s  == IF way[1] = "successor" THEN Leftmost(t, t.right[k])
                                           ELSE Rightmost(t, t.left[k])
             sp == t.parent[s]
         IN  [tree |-> DropNode(SpliceIn(t, k, s, way), k),
              start |-> IF sp # k THEN sp ELSE s]
    ELSE LET c == IF t.left[k] # Nil THEN t.left[k] ELSE t.right[k]
         IN  [tree |-> DropNode(Transplant(t, k, c), k), start |-> t.parent[k]]

\* -------------------------------------------------------------- actions
Store(t) ==
    /\ root' = t.root
    /\ left' = t.left
    /\ right' = t.right
    /\ parent' = t.parent
    /\ height' = t.height
    /\ weight' = t.weight
    /\ count' = t.count

Empty == [x \in {} |-> Nil]

Init ==
    /\ root = Nil
    /\ left = Empty /\ right = Empty /\ parent = Empty
    /\ height = Empty /\ weight = Empty /\ count = Empty
    /\ pc = "idle"
    /\ unode = Nil /\ bnode = Nil /\ bparent = Nil
    /\ plan = <<>>
    /\ depth = "direct"
    /\ rotlog = <<>>
    /\ ballog = <<>>
    /\ op = <<"none", Nil>>
    /\ sid = 0
    /\ pos = 0

\* insert(k): attach the new leaf, then enter _update(leaf).
Insert(k) ==
    /\ pc = "idle"
    /\ k \notin Nodes(Tree)
    /\ Store(InsertNode(Tree, k))
    /\ unode' = k
    /\ op' = <<"insert", k>>
    /\ pc' = "update"
    /\ rotlog' = <<>>
    /\ ballog' = <<>>
    /\ UNCHANGED <<bnode, bparent, plan, depth>>

\* delete(k): splice the node out, then enter _update(parent of the splice).
Delete(k) ==
    /\ pc = "idle"
    /\ k \in Nodes(Tree)
    /\ \E way \in SpliceWays :
       LET d == DeleteNode(Tree, k, way)
       IN  /\ Store(d.tree)
           /\ unode' = d.start
    /\ op' = <<"delete", k>>
    /\ pc' = "update"
    /\ rotlog' = <<>>
    /\ ballog' = <<>>
    /\ UNCHANGED <<bnode, bparent, plan, depth>>

\* _update, `while node:` false: the walk and the operation are over.
UpdateDone ==
    /\ pc = "update"
    /\ unode = Nil
    /\ pc' = "idle"
    /\ UNCHANGED <<treeVars, unode, bnode, bparent, plan, depth, rotlog, ballog,
                   op, sid, pos>>

\* _update, loop body up to the call: node.update(); self._balance(node).
UpdateNode ==
    /\ pc = "update"
    /\ unode # Nil
    /\ Store(Update(Tree, unode))
    /\ bnode' = unode
    /\ depth' = "direct"
    /\ pc' = "balance"
    /\ UNCHANGED <<unode, bparent, plan, rotlog, ballog, op, sid, pos>>

\* _balance entry: capture the parent and take the heavy tests.
Balance ==
    /\ pc = "balance"
    /\ bparent' = parent[bnode]
    /\ plan' = BalancePlan(Tree, bnode)
    /\ ballog' = Append(ballog,
           [node |-> bnode, depth |-> depth, stored |-> height[bnode],
            current |-> UpdateHeight(Tree, bnode),
            rotations |-> Len(BalancePlan(Tree, bnode))])
    /\ pc' = "rotate"
    /\ UNCHANGED <<treeVars, unode, bnode, depth, rotlog, op, sid, pos>>

\* One _rotate_left call of the running _balance.
DoRotateLeft ==
    /\ pc = "rotate"
    /\ plan # <<>>
    /\ Head(plan)[1] = "L"
    /\ LET n == RotNode(Tree, bnode, Head(plan))
       IN  /\ Store(RotateLeft(Tree, n, right[n]))
           /\ rotlog' = Append(rotlog, <<"L", n>>)
    /\ plan' = Tail(plan)
    /\ UNCHANGED <<pc, unode, bnode, bparent, depth, ballog, op, sid, pos>>

\* One _rotate_right call of the running _balance.
DoRotateRight ==
    /\ pc = "rotate"
    /\ plan # <<>>
    /\ Head(plan)[1] = "R"
    /\ LET n == RotNode(Tree, bnode, Head(plan))
       IN  /\ Store(RotateRight(Tree, n, left[n]))
           /\ rotlog' = Append(rotlog, <<"R", n>>)
    /\ plan' = Tail(plan)
    /\ UNCHANGED <<pc, unode, bnode, bparent, depth, ballog, op, sid, pos>>

\* _balance tail, `if parent:` true: self._balance(parent).
BalanceParent ==
    /\ pc = "rotate"
    /\ plan = <<>>
    /\ bparent # Nil
    /\ bnode' = bparent
    /\ depth' = "recursive"
    /\ pc' = "balance"
    /\ UNCHANGED <<treeVars, unode, bparent, plan, rotlog, ballog, op, sid, pos>>

\* Mutant: the loop of _update does not advance to node.parent.
BalanceReturn_Stay ==
    /\ pc = "rotate"
    /\ plan = <<>>
    /\ bparent = Nil
    /\ unode' = unode
    /\ pc' = "update"
    /\ UNCHANGED <<treeVars, bnode, bparent, plan, depth, rotlog, ballog, op, sid, pos>>

\* _balance tail, `if parent:` false: every _balance call returns and
\* _update advances, node = node.parent.
BalanceReturn ==
    /\ pc = "rotate"
    /\ plan = <<>>
    /\ bparent = Nil
    /\ unode' = parent[unode]
    /\ pc' = "update"
    /\ UNCHANGED <<treeVars, bnode, bparent, plan, depth, rotlog, ballog, op, sid, pos>>

Walk ==
    \/ UpdateDone
    \/ UpdateNode
    \/ Balance
    \/ DoRotateLeft
    \/ DoRotateRight
    \/ BalanceParent
    \/ BalanceReturn

FreeInsert == \E k \in 1..MaxKey : Insert(k) /\ UNCHANGED <<sid, pos>>

FreeDelete == \E k \in 1..MaxKey : Delete(k) /\ UNCHANGED <<sid, pos>>

Next == FreeInsert \/ FreeDelete \/ Walk

Spec == Init /\ [][Next]_vars

FairInsert == \E k \in 1..FairKey : Insert(k) /\ UNCHANGED <<sid, pos>>

FairDelete == \E k \in 1..FairKey : Delete(k) /\ UNCHANGED <<sid, pos>>

FairNext == FairInsert \/ FairDelete \/ Walk

\* A started _update call keeps running: its loop and the _balance calls are
\* sequential code of one insert or delete.
FairSpec == Init /\ [][FairNext]_vars /\ WF_vars(Walk)

\* --------------------------------------------------------------- scripts
\* Fixed operation sequences replayed on an empty tree.
\*   1: insert 10, 20, 30          2: insert 30, 10, 20
\*   3: insert 4, 2, 6, 1, 3, 5, 7, then delete 4
\*   4: insert 1, 2, ..., MaxInc (strictly increasing)
\*   5: insert 5, 2, 8, 1, 4, 6, 10, 3, 7, 9, 11, then delete 8
ScriptIds == 1..5

ScriptLen(s) ==
    CASE s = 1 -> 3
      [] s = 2 -> 3
      [] s = 3 -> 8
      [] s = 4 -> MaxInc
      [] s = 5 -> 12

ScriptOp(s, i) ==
    CASE s = 1 -> <<"insert", <<10, 20, 30>>[i]>>
      [] s = 2 -> <<"insert", <<30, 10, 20>>[i]>>
      [] s = 3 -> IF i <= 7 THEN <<"insert", <<4, 2, 6, 1, 3, 5, 7>>[i]>>
                            ELSE <<"delete", 4>>
      [] s = 4 -> <<"insert", i>>
      [] s = 5 -> IF i <= 11
                  THEN <<"insert", <<5, 2, 8, 1, 4, 6, 10, 3, 7, 9, 11>>[i]>>
                  ELSE <<"delete", 8>>

InitScript ==
    /\ root = Nil
    /\ left = Empty /\ right = Empty /\ parent = Empty
    /\ height = Empty /\ weight = Empty /\ count = Empty
    /\ pc = "idle"
    /\ unode = Nil /\ bnode = Nil /\ bparent = Nil
    /\ plan = <<>>
    /\ depth = "direct"
    /\ rotlog = <<>>
    /\ ballog = <<>>
    /\ op = <<"none", Nil>>
    /\ sid \in ScriptIds
    /\ pos = 0

ScriptInsert ==
    /\ pos < ScriptLen(sid)
    /\ ScriptOp(sid, pos + 1)[1] = "insert"
    /\ Insert(ScriptOp(sid, pos + 1)[2])
    /\ pos' = pos + 1
    /\ UNCHANGED sid

ScriptDelete ==
    /\ pos < ScriptLen(sid)
    /\ ScriptOp(sid, pos + 1)[1] = "delete"
    /\ Delete(ScriptOp(sid, pos + 1)[2])
    /\ pos' = pos + 1
    /\ UNCHANGED sid

NextScript == ScriptInsert \/ ScriptDelete \/ Walk

SpecScript == InitScript /\ [][NextScript]_vars

\* ------------------------------------------------- independent checker
\* What a checker walk over the tree's shape recomputes, reading no stored
\* height or weight.
RECURSIVE ShapeHeight(_, _)
ShapeHeight(t, n) ==
    IF n = Nil THEN -1
    ELSE 1 + Max(ShapeHeight(t, t.left[n]), ShapeHeight(t, t.right[n]))

RECURSIVE ShapeWeight(_, _)
ShapeWeight(t, n) ==
    IF n = Nil THEN 0
    ELSE t.count[n] + ShapeWeight(t, t.left[n]) + ShapeWeight(t, t.right[n])

RECURSIVE Subtree(_, _)
\* The nodes reachable from n by child links.
Subtree(t, n) ==
    IF n = Nil THEN {}
    ELSE {n} \cup Subtree(t, t.left[n]) \cup Subtree(t, t.right[n])

RECURSIVE InOrder(_, _)
InOrder(t, n) ==
    IF n = Nil THEN <<>>
    ELSE InOrder(t, t.left[n]) \o <<n>> \o InOrder(t, t.right[n])

StrictlyIncreasing(q) == \A i \in 1..(Len(q) - 1) : q[i] < q[i + 1]

Reachable == Subtree(Tree, root)

Completed == pc = "idle" /\ op[1] # "none"

\* ----------------------------------------------------------------- C1
\* C1: after every insert or delete completes, every node reachable from
\* root has subtrees whose heights, recomputed from the shape, differ by at
\* most one.
C1_HeightBalanced ==
    Completed =>
        \A n \in Reachable :
            Abs(ShapeHeight(Tree, left[n]) - ShapeHeight(Tree, right[n])) <= 1

\* A delete has completed whose walk rotated twice, in a tree of 5+ nodes.
C1_Witness ==
    /\ Completed
    /\ op[1] = "delete"
    /\ Len(rotlog) >= 2
    /\ Cardinality(Reachable) >= 5

\* ----------------------------------------------------------------- C2
\* C2: after every insert or delete completes, the stored height and weight
\* of every node reachable from root equal the height and weight recomputed
\* from the tree's shape.
C2_FieldsExact ==
    Completed =>
        \A n \in Reachable :
            /\ height[n] = ShapeHeight(Tree, n)
            /\ weight[n] = ShapeWeight(Tree, n)
            /\ height[n] = 1 + Max(LeftHeight(Tree, n), RightHeight(Tree, n))
            /\ weight[n] = count[n] + LeftWeight(Tree, n) + RightWeight(Tree, n)

\* A delete has completed whose walk rotated, in a tree that still has
\* height 2 or more and 6 or more keys.
C2_Witness ==
    /\ Completed
    /\ op[1] = "delete"
    /\ Len(rotlog) >= 1
    /\ root # Nil
    /\ height[root] >= 2
    /\ weight[root] >= 6

\* ----------------------------------------------------------------- C3
\* C3: after every insert or delete completes, the in-order key sequence of
\* the tree is strictly increasing.
C3_Ordered ==
    Completed => StrictlyIncreasing(InOrder(Tree, root))

\* An operation has completed in which a rotation reattached the rotated
\* subtree under a parent (the rotated node was not the root).
C3_Witness ==
    /\ Completed
    /\ \E i \in 1..Len(rotlog) :
        /\ parent[rotlog[i][2]] # Nil
        /\ parent[parent[rotlog[i][2]]] # Nil
    /\ Len(InOrder(Tree, root)) >= 5

\* ----------------------------------------------------------------- C4
\* C4: after every insert or delete completes, root is absent or the unique
\* node with no parent, every other node is a child of its parent, every
\* child points back to its parent, and no node fills two child slots.
C4_LinksConsistent ==
    Completed =>
        /\ root = Nil <=> Nodes(Tree) = {}
        /\ root # Nil => root \in Nodes(Tree) /\ parent[root] = Nil
        /\ \A n \in Nodes(Tree) :
            /\ n # root =>
                /\ parent[n] \in Nodes(Tree)
                /\ left[parent[n]] = n \/ right[parent[n]] = n
            /\ left[n] # Nil => left[n] \in Nodes(Tree) /\ parent[left[n]] = n
            /\ right[n] # Nil => right[n] \in Nodes(Tree) /\ parent[right[n]] = n
            /\ left[n] # Nil => left[n] # right[n]
        /\ \A m, n \in Nodes(Tree) :
            m # n => \A c \in {left[m], right[m]} :
                        c # Nil => c \notin {left[n], right[n]}
        /\ Reachable = Nodes(Tree)

\* An operation has completed whose walk rotated twice or more, the last
\* time at the root: the node rotated last is now a child of the root.
C4_Witness ==
    /\ Completed
    /\ Len(rotlog) >= 2
    /\ Cardinality(Nodes(Tree)) >= 4
    /\ rotlog[Len(rotlog)][2] \in {left[root], right[root]}

\* ----------------------------------------------------------------- C5
RECURSIVE IsBalanced(_, _)
\* AVLTree.is_balanced(node): "True", "False", or "AttributeError" when the
\* node it ends up testing is None.
IsBalanced(t, node) ==
    LET n == IF node = Nil THEN t.root ELSE node
    IN  IF n = Nil THEN "AttributeError"
        ELSE LET b0 == IF IsHeavy(t, n) THEN "False" ELSE "True"
                 b1 == IF b0 = "True" /\ t.left[n] # Nil
                       THEN IsBalanced(t, t.left[n]) ELSE b0
                 b2 == IF b1 = "True" /\ t.right[n] # Nil
                       THEN IsBalanced(t, t.right[n]) ELSE b1
             IN  b2

\* C5: after each insert or delete, is_balanced(root) returns true: it
\* neither returns false nor fails.
C5_IsBalancedTrue ==
    Completed => IsBalanced(Tree, root) = "True"

\* A delete has emptied the tree, so is_balanced has no node to test.
C5_FailingInput == Completed /\ op[1] = "delete" /\ root = Nil

\* ----------------------------------------------------------------- C6
IsLeaf(n) == left[n] = Nil /\ right[n] = Nil

\* Root 20 with the leaves 10 and 30 as its left and right child.
Shape_10_20_30 ==
    /\ root = 20
    /\ left[20] = 10 /\ right[20] = 30
    /\ IsLeaf(10) /\ IsLeaf(30)
    /\ parent[20] = Nil /\ parent[10] = 20 /\ parent[30] = 20

\* C6: inserting 10, 20, 30 into an empty tree makes exactly one rotation, a
\* left rotation at node 10, and ends with root 20, left child 10, right
\* child 30, stored heights 1 for the root and 0 for both leaves.
C6_Insert_10_20_30 ==
    sid = 1 /\ Completed =>
        /\ pos < 3 => rotlog = <<>>
        /\ pos = 3 =>
            /\ rotlog = <<<<"L", 10>>>>
            /\ Shape_10_20_30
            /\ height[20] = 1 /\ height[10] = 0 /\ height[30] = 0

\* The third insert of the script has completed.
C6_Witness == sid = 1 /\ pos = 3 /\ Completed /\ op = <<"insert", 30>>

\* ----------------------------------------------------------------- C7
\* C7 as stated: inserting 30, 10, 20 makes the right-left double rotation
\* (rotate right at node.right, then rotate left at node) and ends with root
\* 20 and children 10 and 30.
C7_Original ==
    sid = 2 /\ pos = 3 /\ Completed =>
        /\ Len(rotlog) = 2
        /\ rotlog[1][1] = "R"
        /\ rotlog[2][1] = "L"
        /\ Shape_10_20_30

\* C7 amended: inserting 30, 10, 20 makes the left-right double rotation,
\* node 30 being left-heavy with a left child 10 that leans right: rotate
\* left at node.left (10), then rotate right at node (30); the tree ends with
\* root 20 and children 10 and 30, as for 10, 20, 30.
C7_Insert_30_10_20 ==
    sid = 2 /\ Completed =>
        /\ pos < 3 => rotlog = <<>>
        /\ pos = 3 =>
            /\ rotlog = <<<<"L", 10>>, <<"R", 30>>>>
            /\ Shape_10_20_30
            /\ height[20] = 1 /\ height[10] = 0 /\ height[30] = 0

\* The third insert of the script has completed.
C7_Witness == sid = 2 /\ pos = 3 /\ Completed /\ op = <<"insert", 20>>

\* ----------------------------------------------------------------- C8
\* C8: after inserting 4, 2, 6, 1, 3, 5, 7 and deleting 4, a node with two
\* children, the tree is height-balanced and ordered, its in-order sequence
\* is 1, 2, 3, 5, 6, 7, its stored heights and weights are exact, and the
\* rebalance walk started at the splice point, the node that lost the
\* spliced child.
C8_DeleteRoot ==
    sid = 3 /\ pos = 8 /\ Completed =>
        /\ InOrder(Tree, root) = <<1, 2, 3, 5, 6, 7>>
        /\ StrictlyIncreasing(InOrder(Tree, root))
        /\ \A n \in Reachable :
            Abs(ShapeHeight(Tree, left[n]) - ShapeHeight(Tree, right[n])) <= 1
        /\ IsBalanced(Tree, root) = "True"
        /\ \A n \in Reachable :
            /\ height[n] = ShapeHeight(Tree, n)
            /\ weight[n] = ShapeWeight(Tree, n)
        /\ ballog # <<>>
        /\ ballog[1].depth = "direct"
        /\ \/ ballog[1].node = 6 /\ root = 5 /\ left[6] = Nil
           \/ ballog[1].node = 2 /\ root = 3 /\ right[2] = Nil

\* The delete of the 7-node tree's root has completed.
C8_Witness ==
    /\ sid = 3 /\ pos = 8 /\ Completed
    /\ op = <<"delete", 4>>
    /\ Cardinality(Nodes(Tree)) = 6

\* ----------------------------------------------------------------- C9
RECURSIVE Fib(_)
Fib(i) == IF i <= 2 THEN 1 ELSE Fib(i - 1) + Fib(i - 2)

\* The largest integer height not above 1.44 * log2(n + 2) - 0.33
\* (1.95, 4.23, 5.55, 9.27 and 14.02 for the five values of n).
HeightLimit(n) ==
    CASE n = 1 -> 1
      [] n = 7 -> 4
      [] n = 15 -> 5
      [] n = 100 -> 9
      [] n = 1000 -> 14

\* C9: after inserting n keys in strictly increasing order, the stored height
\* of the root is at most 1.44 * log2(n + 2) - 0.33 for n in {1, 7, 15, 100,
\* 1000}, and for every n a root of height h holds at least Fib(h + 3) - 1
\* keys.
C9_HeightBound ==
    sid = 4 /\ Completed =>
        /\ pos \in {1, 7, 15, 100, 1000} => height[root] <= HeightLimit(pos)
        /\ pos >= Fib(height[root] + 3) - 1
        /\ weight[root] = pos

\* The hundredth increasing insert has completed, its walk rotated, and the
\* root stores height 6 over 100 keys.
C9_Witness ==
    /\ sid = 4 /\ Completed
    /\ pos = 100
    /\ op = <<"insert", 100>>
    /\ Len(rotlog) >= 1
    /\ height[root] = 6

\* ---------------------------------------------------------------- C10
\* C10: every _balance call, the direct one made by _update and each
\* recursive one on the captured parent, starts when the stored height of
\* its node equals 1 + max(left_height, right_height).
C10_BalanceHeightCurrent ==
    pc = "balance" => height[bnode] = UpdateHeight(Tree, bnode)

\* ---------------------------------------------------------------- C11
\* The nodes _balance is tried on: every node of a tree an insert or delete
\* has left, and the argument of every call a walk makes.
BalanceArgs ==
    IF pc = "idle" THEN Nodes(Tree)
    ELSE IF pc = "balance" THEN {bnode}
    ELSE {}

\* C11: a _balance(node) call, its recursive calls on the ancestors
\* included, neither loses nor duplicates nor adds keys: for every tree the
\* operations leave and every node in it, and for every call a walk makes on
\* the tree as it then is, the in-order sequence and the set of keys
\* reachable from root are the same after the call as before.
C11_BalanceKeepsKeys ==
    \A n \in BalanceArgs :
        LET t2 == BalanceCall(Tree, n)
        IN  /\ InOrder(t2, t2.root) = InOrder(Tree, root)
            /\ Subtree(t2, t2.root) = Subtree(Tree, root)
            /\ Nodes(t2) = Nodes(Tree)

\* The loop of a walk calls _balance on a node below the root of a tree of
\* five or more nodes, and a recursive call on an ancestor rotates at the
\* root, which changes.
C11_Witness ==
    /\ pc = "balance"
    /\ depth = "direct"
    /\ parent[bnode] # Nil
    /\ BalancePlan(Tree, bnode) = <<>>
    /\ BalanceCall(Tree, bnode).root # root
    /\ Cardinality(Reachable) >= 5

\* ---------------------------------------------------------------- C12
\* A _rotate_left or _rotate_right call is about to be made.
Rotating == pc = "rotate" /\ plan # <<>>

\* Its arguments node and heavy_child, the subtree that changes sides, and
\* the tree the call leaves.
RotPivot == RotNode(Tree, bnode, Head(plan))

RotHeavy ==
    IF Head(plan)[1] = "L" THEN right[RotPivot] ELSE left[RotPivot]

RotMoved ==
    IF Head(plan)[1] = "L" THEN left[RotHeavy] ELSE right[RotHeavy]

AfterRotation == Rotation(Tree, bnode, Head(plan))

\* The nodes on which trees t and u differ in a link field, and in a stored
\* height or weight.
LinkChanged(t, u) ==
    {n \in Nodes(t) : \/ t.left[n] # u.left[n]
                      \/ t.right[n] # u.right[n]
                      \/ t.parent[n] # u.parent[n]}

FieldChanged(t, u) ==
    {n \in Nodes(t) : \/ t.height[n] # u.height[n]
                      \/ t.weight[n] # u.weight[n]}

\* C12 as stated: a rotation call changes the link fields of exactly three
\* nodes and the stored height/weight of exactly node and heavy_child.
C12_Original ==
    Rotating =>
        /\ Cardinality(LinkChanged(Tree, AfterRotation)) = 3
        /\ FieldChanged(Tree, AfterRotation) = {RotPivot, RotHeavy}

\* node's stored height and weight are what update() would store.
Current(t, n) ==
    /\ t.height[n] = UpdateHeight(t, n)
    /\ t.weight[n] = UpdateWeight(t, n)

\* C12: a single rotation call changes the link fields of node, of
\* heavy_child, of the subtree root that changes sides when there is one and
\* of node's original parent when there is one, so of two to four nodes; it
\* changes the stored height/weight of heavy_child, of node too when node's
\* stored values were current, and of no other node; links, height and
\* weight of every other node, and every count, are unchanged.
C12_RotationFrame ==
    Rotating =>
        /\ LinkChanged(Tree, AfterRotation)
              = {RotPivot, RotHeavy, RotMoved, parent[RotPivot]} \ {Nil}
        /\ Cardinality(LinkChanged(Tree, AfterRotation)) \in 2..4
        /\ FieldChanged(Tree, AfterRotation) \subseteq {RotPivot, RotHeavy}
        /\ RotHeavy \in FieldChanged(Tree, AfterRotation)
        /\ Current(Tree, RotPivot)
              => RotPivot \in FieldChanged(Tree, AfterRotation)
        /\ AfterRotation.count = count
        /\ Nodes(AfterRotation) = Nodes(Tree)

\* The second rotation of a double rotation is about to be made at a node
\* that has a parent, and the heavy child hands over a subtree: four nodes
\* change links.
C12_Witness ==
    /\ Rotating
    /\ Len(rotlog) >= 1
    /\ parent[RotPivot] # Nil
    /\ RotMoved # Nil
    /\ Cardinality(LinkChanged(Tree, AfterRotation)) = 4

\* ---------------------------------------------------------------- C13
\* Node n is absent, or its stored height and weight are those of the shape
\* below it.
ShapeExact(t, n) ==
    \/ n = Nil
    \/ /\ t.height[n] = ShapeHeight(t, n)
       /\ t.weight[n] = ShapeWeight(t, n)

\* What _rotate_left(n, h) leaves in tree u, x being h's former left child
\* and p the parent n had.
RotatedLeft(u, n, h, x, p) ==
    /\ IF p = Nil
       THEN u.root = h /\ u.parent[h] = Nil
       ELSE /\ u.root = root /\ u.parent[h] = p
            /\ left[p] = n => u.left[p] = h /\ u.right[p] = right[p]
            /\ right[p] = n => u.right[p] = h /\ u.left[p] = left[p]
    /\ u.left[h] = n /\ u.parent[n] = h
    /\ u.right[n] = x /\ (x # Nil => u.parent[x] = n)
    /\ u.left[n] = left[n] /\ u.right[h] = right[h]

\* The mirror image, x being h's former right child.
RotatedRight(u, n, h, x, p) ==
    /\ IF p = Nil
       THEN u.root = h /\ u.parent[h] = Nil
       ELSE /\ u.root = root /\ u.parent[h] = p
            /\ left[p] = n => u.left[p] = h /\ u.right[p] = right[p]
            /\ right[p] = n => u.right[p] = h /\ u.left[p] = left[p]
    /\ u.right[h] = n /\ u.parent[n] = h
    /\ u.left[n] = x /\ (x # Nil => u.parent[x] = n)
    /\ u.right[n] = right[n] /\ u.left[h] = left[h]

\* The three subtrees a rotation hangs below node and heavy_child carry
\* exact stored heights and weights.
RotSubtreesExact ==
    /\ ShapeExact(Tree, RotMoved)
    /\ ShapeExact(Tree, IF Head(plan)[1] = "L" THEN left[RotPivot]
                                               ELSE right[RotPivot])
    /\ ShapeExact(Tree, IF Head(plan)[1] = "L" THEN right[RotHeavy]
                                               ELSE left[RotHeavy])

RECURSIVE Climb(_, _, _)
\* The parent links followed from n until absent, at most fuel + 1.
Climb(t, n, fuel) ==
    IF n = Nil THEN 0
    ELSE IF fuel = 0 THEN 1
    ELSE 1 + Climb(t, t.parent[n], fuel - 1)

\* The number of nodes from n up to the root, n included; more than the
\* tree has nodes when the parent links from n never end.
Level(t, n) == Climb(t, n, Cardinality(Nodes(t)))

\* During a walk the parent links from the loop variable and from the
\* _balance argument end, and a _balance argument without parent is the
\* root.
WalkChainsEnd ==
    pc # "idle" =>
        /\ Level(Tree, unode) <= Cardinality(Nodes(Tree))
        /\ pc \in {"balance", "rotate"} =>
              /\ Level(Tree, bnode) <= Cardinality(Nodes(Tree))
              /\ parent[bnode] = Nil => bnode = root
              /\ pc = "rotate" /\ bparent = Nil /\ rotlog = <<>>
                    => bnode = root

\* `node = node.parent` takes the loop variable strictly upward.
LoopStepsUp ==
    pc = "rotate" /\ pc' = "update" =>
        /\ unode' = parent[unode]
        /\ Level(Tree', unode') < Level(Tree, unode)

\* The recursive _balance call is made on a node strictly above.
RecursionStepsUp ==
    pc = "rotate" /\ pc' = "balance" =>
        /\ bnode' = bparent
        /\ Level(Tree', bnode') < Level(Tree, bnode)

\* C14: the rebalance walk _update(node) terminates for every tree inserts
\* and deletes reach and every start node: the loop variable goes strictly
\* upward along parent links (also after a rotation moved it below its
\* former child) until it is absent past the root, every recursive _balance
\* chain goes strictly upward and ends at the root, and every started walk
\* comes to its end.
C14_WalkTerminates ==
    /\ []WalkChainsEnd
    /\ [][LoopStepsUp]_vars
    /\ [][RecursionStepsUp]_vars
    /\ (pc # "idle") ~> (pc = "idle")

\* A walk has ended in which the direct _balance call rotated the loop
\* variable below its former child, and the loop went on from there.
C14_Witness ==
    /\ Completed
    /\ \E i \in 1..(Len(ballog) - 1) :
          /\ ballog[i].depth = "direct"
          /\ ballog[i].rotations > 0
          /\ ballog[i + 1].depth = "direct"
          /\ ballog[i + 1].node = parent[ballog[i].node]

\* ---------------------------------------------------------------- C15
\* The _balance invocations of the running walk, direct and recursive, that
\* rotated at node n (a single or a double rotation each).
PivotCalls(n) ==
    {i \in 1..Len(ballog) : ballog[i].node = n /\ ballog[i].rotations > 0}

\* C15: during the walk of one insert into a balanced tree, each node is the
\* pivot of at most one rotation, single or double, counted over all
\* _balance invocations of the walk, direct and recursive.
C15_OneRotationPerAncestor ==
    op[1] = "insert" =>
        \A n \in Nodes(Tree) : Cardinality(PivotCalls(n)) <= 1

\* The walk of an insert has ended in which a recursive _balance invocation
\* made a double rotation at an ancestor of the new leaf, below the root,
\* and the invocations after it went on to the ancestors above.
C15_Witness ==
    /\ Completed
    /\ op[1] = "insert"
    /\ \E i \in 1..Len(ballog) :
          /\ ballog[i].depth = "recursive"
          /\ ballog[i].rotations = 2
          /\ Cardinality(PivotCalls(ballog[i].node)) = 1
          /\ \E j \in (i + 1)..Len(ballog) :
                /\ ballog[j].depth = "recursive"
                /\ ballog[j].rotations = 0

\* ---------------------------------------------------------------- C16
\* The shape below n: left height minus right height.
Lean(t, n) == ShapeHeight(t, t.left[n]) - ShapeHeight(t, t.right[n])

\* Every node of the subtree at n stores its exact height and has subtrees
\* whose heights differ by at most one.
SubtreeSound(t, n) ==
    \A m \in Subtree(t, n) :
        /\ t.height[m] = ShapeHeight(t, m)
        /\ Abs(Lean(t, m)) <= 1

\* Node n is absent, or neither its stored child heights nor the shape below
\* it make it heavy.
NotHeavy(t, n) ==
    \/ n = Nil
    \/ ~IsHeavy(t, n) /\ Abs(Lean(t, n)) <= 1

\* _balance is entered at a node whose subtrees are sound and whose heights
\* differ by exactly two.
LocalCase ==
    /\ pc = "balance"
    /\ SubtreeSound(Tree, left[bnode])
    /\ SubtreeSound(Tree, right[bnode])
    /\ Abs(Lean(Tree, bnode)) = 2

\* The child of bnode on the higher side of the shape.
HeavyChild == IF Lean(Tree, bnode) > 0 THEN left[bnode] ELSE right[bnode]

\* The heavy child leans strictly away from the side it hangs on.
LeansOpposite ==
    IF Lean(Tree, bnode) > 0 THEN Lean(Tree, HeavyChild) < 0
                             ELSE Lean(Tree, HeavyChild) > 0

\* C16: when _balance is entered at a node whose two subtrees are balanced
\* with exact stored heights and whose heights differ by exactly two, it
\* rotates; afterwards the heavy child or its inner child is the new subtree
\* root, and that root and both its children are not heavy; the rotation is
\* double exactly when the heavy child leans strictly the opposite way.
C16_LocalBalanceRestored ==
    LocalCase =>
        LET u == ApplyPlan(Tree, bnode)
            r == u.parent[bnode]
        IN  /\ BalancePlan(Tree, bnode) # <<>>
            /\ r # Nil /\ bnode \in {u.left[r], u.right[r]}
            /\ u.parent[r] = parent[bnode]
            /\ NotHeavy(u, r)
            /\ NotHeavy(u, u.left[r])
            /\ NotHeavy(u, u.right[r])
            /\ SubtreeSound(u, r)
            /\ Len(BalancePlan(Tree, bnode)) = 2 <=> LeansOpposite
            /\ r = (IF LeansOpposite
                    THEN (IF Lean(Tree, bnode) > 0 THEN right[HeavyChild]
                                                   ELSE left[HeavyChild])
                    ELSE HeavyChild)

\* _balance is entered at such a node below a parent, with a heavy child
\* that is itself balanced: a single rotation is made.
C16_Witness ==
    /\ LocalCase
    /\ parent[bnode] # Nil
    /\ Lean(Tree, HeavyChild) = 0
    /\ Len(BalancePlan(Tree, bnode)) = 1
    /\ NotHeavy(ApplyPlan(Tree, bnode), HeavyChild)

====
